---- MODULE Spec2Model ----
(***************************************************************************)
(* roqoqo PRAGMA operations (roqoqo/src/operations/pragma_operations.rs).  *)
(*                                                                         *)
(* The operations are immutable values; every method takes &self and       *)
(* returns a new value, an error value, or aborts (panics).  The state     *)
(* machine below holds one operation `op` (the receiver) and the outcome   *)
(* `result` of the last method a caller invoked on it, together with the   *)
(* arguments of that call.                                                 *)
(***************************************************************************)
EXTENDS Integers, Sequences, FiniteSets, TLC

VARIABLES op, result, prev, depth

vars == <<op, result, prev, depth>>

(***************************************************************************)
(* Bounds of the model.                                                    *)
(***************************************************************************)
\* qubit indices are 0..MaxQubit
MaxQubit == 1
\* longest `qubits` list and longest embedded circuit
MaxLen == 2
\* most entries of a reordering dictionary
MaxDict == 2
\* how many times a caller replaces the operation by a returned copy
MaxChain == 1

Qubits == 0..MaxQubit

(***************************************************************************)
(* f64 values.  A value is a + b*exp(x) with a, b, x exact rationals       *)
(* <<numerator, denominator>>; b = 0 for the values that are rational.     *)
(* All inputs of the model are small dyadic rationals, on which the f64    *)
(* products below are exact.                                               *)
(***************************************************************************)
Abs(n) == IF n < 0 THEN -n ELSE n

RECURSIVE Gcd(_, _)
Gcd(a, b) == IF b = 0 THEN a ELSE Gcd(b, a % b)

Norm(n, d) ==
    LET g == Gcd(Abs(n), Abs(d))
        s == IF d < 0 THEN -1 ELSE 1
    IN  <<(s * n) \div g, (s * d) \div g>>

QMul(p, q) == Norm(p[1] * q[1], p[2] * q[2])
QAdd(p, q) == Norm(p[1] * q[2] + q[1] * p[2], p[2] * q[2])
QNeg(p) == <<-p[1], p[2]>>
QInv(p) == Norm(p[2], p[1])
QZero == <<0, 1>>
QOne == <<1, 1>>

Mk(a, b, x) ==
    IF b = QZero THEN [a |-> a, b |-> QZero, x |-> QZero]
    ELSE IF x = QZero THEN [a |-> QAdd(a, b), b |-> QZero, x |-> QZero]
    ELSE [a |-> a, b |-> b, x |-> x]

R(n, d) == Mk(Norm(n, d), QZero, QZero)
IsRat(p) == p.b = QZero

\* f64 multiplication
RealMul(p, q) ==
    CASE IsRat(p) -> Mk(QMul(p.a, q.a), QMul(p.a, q.b), q.x)
      [] IsRat(q) -> Mk(QMul(p.a, q.a), QMul(p.b, q.a), p.x)
      [] ~IsRat(p) /\ ~IsRat(q) /\ p.a = QZero /\ q.a = QZero ->
            Mk(QZero, QMul(p.b, q.b), QAdd(p.x, q.x))

\* f64 addition
RealAdd(p, q) ==
    CASE IsRat(p) -> Mk(QAdd(p.a, q.a), q.b, q.x)
      [] IsRat(q) -> Mk(QAdd(p.a, q.a), p.b, p.x)
      [] ~IsRat(p) /\ ~IsRat(q) /\ p.x = q.x ->
            Mk(QAdd(p.a, q.a), QAdd(p.b, q.b), p.x)

RealNeg(p) == Mk(QNeg(p.a), QNeg(p.b), p.x)
RealSub(p, q) == RealAdd(p, RealNeg(q))

\* f64::exp
RealExp(p) ==
    CASE IsRat(p) -> Mk(QZero, QOne, p.a)

\* f64::sqrt
RealSqrt(p) ==
    CASE IsRat(p) /\ p.a \in {QZero, QOne} -> p
      [] ~IsRat(p) /\ p.a = QZero /\ p.b = QOne ->
            Mk(QZero, QOne, QMul(p.x, <<1, 2>>))

\* 1.0 / k as the caller of powercf forms it
RealInv(p) ==
    CASE IsRat(p) /\ p.a # QZero -> Mk(QInv(p.a), QZero, QZero)

(***************************************************************************)
(* qoqo_calculator::CalculatorFloat: Float(f64) or Str(expression).  An    *)
(* expression string is kept as its sequence of tokens, so that two        *)
(* strings are equal exactly when their token sequences are, and format!   *)
(* is concatenation.                                                       *)
(***************************************************************************)
CFloat(r) == [tag |-> "Float", v |-> r, s |-> <<>>]
CStr(toks) == [tag |-> "Str", v |-> R(0, 1), s |-> toks]

\* the {:e} (LowerExp) rendering of the f64 values that get formatted
FmtTable ==
    { <<R(0, 1), "0e0">>, <<R(1, 1), "1e0">>, <<R(2, 1), "2e0">>,
      <<R(4, 1), "4e0">>, <<R(1, 2), "5e-1">>, <<R(1, 4), "2.5e-1">>,
      <<R(3, 4), "7.5e-1">>, <<R(-1, 1), "-1e0">>, <<R(-2, 1), "-2e0">>,
      <<R(-1, 2), "-5e-1">>, <<R(8, 1), "8e0">>, <<R(-4, 1), "-4e0">>,
      <<R(7, 4), "1.75e0">> }

FmtE(r) == (CHOOSE e \in FmtTable : e[1] = r)[2]
NumberTexts == {e[2] : e \in FmtTable}
ParseE(text) == (CHOOSE e \in FmtTable : e[2] = text)[1]

\* impl Mul for CalculatorFloat
CalculatorFloat_mul(x, y) ==
    CASE x.tag = "Float" /\ y.tag = "Float" -> CFloat(RealMul(x.v, y.v))
      [] x.tag = "Float" /\ y.tag = "Str" ->
            IF x.v = R(0, 1) THEN CFloat(R(0, 1))
            ELSE IF x.v = R(1, 1) THEN CStr(y.s)
            ELSE CStr(<<"(", FmtE(x.v), "*">> \o y.s \o <<")">>)
      [] x.tag = "Str" /\ y.tag = "Float" ->
            IF y.v = R(0, 1) THEN CFloat(R(0, 1))
            ELSE IF y.v = R(1, 1) THEN CStr(x.s)
            ELSE CStr(<<"(">> \o x.s \o <<"*", FmtE(y.v), ")">>)
      [] x.tag = "Str" /\ y.tag = "Str" ->
            CStr(<<"(">> \o x.s \o <<"*">> \o y.s \o <<")">>)

\* impl Add for CalculatorFloat
CalculatorFloat_add(x, y) ==
    CASE x.tag = "Float" /\ y.tag = "Float" -> CFloat(RealAdd(x.v, y.v))
      [] x.tag = "Float" /\ y.tag = "Str" ->
            IF x.v = R(0, 1) THEN CStr(y.s)
            ELSE CStr(<<"(", FmtE(x.v), "+">> \o y.s \o <<")">>)
      [] x.tag = "Str" /\ y.tag = "Float" ->
            IF y.v = R(0, 1) THEN CStr(x.s)
            ELSE CStr(<<"(">> \o x.s \o <<"+", FmtE(y.v), ")">>)
      [] x.tag = "Str" /\ y.tag = "Str" ->
            CStr(<<"(">> \o x.s \o <<"+">> \o y.s \o <<")">>)

\* impl Div<f64> for CalculatorFloat, divisor a nonzero constant
CalculatorFloat_div(x, d) ==
    CASE x.tag = "Float" /\ d # R(0, 1) -> CFloat(RealMul(x.v, RealInv(d)))
      [] x.tag = "Str" /\ d # R(0, 1) ->
            IF d = R(1, 1) THEN CStr(x.s)
            ELSE CStr(<<"(">> \o x.s \o <<"/", FmtE(d), ")">>)

\* CalculatorFloat::exp
CalculatorFloat_exp(x) ==
    IF x.tag = "Float" THEN CFloat(RealExp(x.v))
    ELSE CStr(<<"exp(">> \o x.s \o <<")">>)

(***************************************************************************)
(* Method outcomes: a value, an error value, or an abort of the call.      *)
(***************************************************************************)
Ok(v) == [status |-> "Ok", value |-> v]
Err(e) == [status |-> "Err", error |-> e]
Panic == [status |-> "Panic"]

QubitMappingError(q) == [name |-> "QubitMappingError", qubit |-> q]
FloatSymbolicNotConvertable(toks) ==
    [name |-> "CalculatorError", detail |-> "FloatSymbolicNotConvertable", val |-> toks]
VariableNotDefined(v) ==
    [name |-> "CalculatorError", detail |-> "VariableNotDefined", val |-> <<v>>]

\* impl TryFrom<CalculatorFloat> for f64
f64_try_from(x) ==
    IF x.tag = "Float" THEN Ok(x.v) ELSE Err(FloatSymbolicNotConvertable(x.s))

(***************************************************************************)
(* qoqo_calculator::Calculator: a table of defined variables.  parse_get   *)
(* evaluates a Float to itself and an expression by recursive descent over *)
(* the products powercf builds; an undefined variable fails.               *)
(***************************************************************************)
RECURSIVE ParseAt(_, _, _)
ParseAt(toks, i, calc) ==
    IF toks[i] = "(" THEN
        LET l == ParseAt(toks, i + 1, calc) IN
        IF ~l.ok THEN l
        ELSE LET r == ParseAt(toks, l.next + 1, calc) IN
             IF ~r.ok THEN r
             ELSE [ok |-> TRUE, val |-> RealMul(l.val, r.val),
                   next |-> r.next + 1, bad |-> ""]
    ELSE IF toks[i] \in NumberTexts THEN
        [ok |-> TRUE, val |-> ParseE(toks[i]), next |-> i + 1, bad |-> ""]
    ELSE IF toks[i] \in DOMAIN calc THEN
        [ok |-> TRUE, val |-> calc[toks[i]], next |-> i + 1, bad |-> ""]
    ELSE [ok |-> FALSE, val |-> R(0, 1), next |-> i + 1, bad |-> toks[i]]

Calculator_parse_get(calc, x) ==
    IF x.tag = "Float" THEN Ok(x.v)
    ELSE LET p == ParseAt(x.s, 1, calc) IN
         IF p.ok THEN Ok(p.val) ELSE Err(VariableNotDefined(p.bad))

(***************************************************************************)
(* The operation variants (struct definitions) and their constructors.     *)
(***************************************************************************)
PragmaSetNumberOfMeasurements(n, ro) ==
    [kind |-> "PragmaSetNumberOfMeasurements", number_measurements |-> n, readout |-> ro]
PragmaSetStateVector(sv) == [kind |-> "PragmaSetStateVector", statevector |-> sv]
PragmaSetDensityMatrix(dm) == [kind |-> "PragmaSetDensityMatrix", density_matrix |-> dm]
PragmaRepeatGate(n) == [kind |-> "PragmaRepeatGate", repetition_coefficient |-> n]
PragmaOverrotation(g, qs, a, v) ==
    [kind |-> "PragmaOverrotation", gate_hqslang |-> g, qubits |-> qs,
     amplitude |-> a, variance |-> v]
PragmaBoostNoise(c) == [kind |-> "PragmaBoostNoise", noise_coefficient |-> c]
PragmaStopParallelBlock(qs, t) ==
    [kind |-> "PragmaStopParallelBlock", qubits |-> qs, execution_time |-> t]
PragmaGlobalPhase(ph) == [kind |-> "PragmaGlobalPhase", phase |-> ph]
PragmaSleep(qs, t) == [kind |-> "PragmaSleep", qubits |-> qs, sleep_time |-> t]
PragmaActiveReset(q) == [kind |-> "PragmaActiveReset", qubit |-> q]
PragmaStartDecompositionBlock(qs, d) ==
    [kind |-> "PragmaStartDecompositionBlock", qubits |-> qs, reordering_dictionary |-> d]
PragmaStopDecompositionBlock(qs) == [kind |-> "PragmaStopDecompositionBlock", qubits |-> qs]
PragmaDamping(q, gt, r) ==
    [kind |-> "PragmaDamping", qubit |-> q, gate_time |-> gt, rate |-> r]
PragmaDepolarising(q, gt, r) ==
    [kind |-> "PragmaDepolarising", qubit |-> q, gate_time |-> gt, rate |-> r]
PragmaDephasing(q, gt, r) ==
    [kind |-> "PragmaDephasing", qubit |-> q, gate_time |-> gt, rate |-> r]
PragmaRandomNoise(q, gt, dpr, dhr) ==
    [kind |-> "PragmaRandomNoise", qubit |-> q, gate_time |-> gt,
     depolarising_rate |-> dpr, dephasing_rate |-> dhr]
PragmaGeneralNoise(q, gt, r, ops) ==
    [kind |-> "PragmaGeneralNoise", qubit |-> q, gate_time |-> gt, rate |-> r,
     operators |-> ops]
PragmaConditional(reg, idx, c) ==
    [kind |-> "PragmaConditional", condition_register |-> reg, condition_index |-> idx,
     circuit |-> c]

NoneKinds == {"PragmaSetNumberOfMeasurements", "PragmaBoostNoise", "PragmaGlobalPhase"}
AllKinds == {"PragmaSetStateVector", "PragmaSetDensityMatrix", "PragmaRepeatGate"}
QubitsFieldKinds ==
    {"PragmaOverrotation", "PragmaStopParallelBlock", "PragmaSleep",
     "PragmaStartDecompositionBlock", "PragmaStopDecompositionBlock"}
QubitFieldKinds ==
    {"PragmaActiveReset", "PragmaDamping", "PragmaDepolarising", "PragmaDephasing",
     "PragmaRandomNoise", "PragmaGeneralNoise"}
NoiseKinds == {"PragmaDamping", "PragmaDepolarising", "PragmaDephasing", "PragmaRandomNoise"}

\* the CalculatorFloat fields of each struct, in declaration order
ParamFields(kind) ==
    CASE kind = "PragmaBoostNoise" -> <<"noise_coefficient">>
      [] kind = "PragmaStopParallelBlock" -> <<"execution_time">>
      [] kind = "PragmaGlobalPhase" -> <<"phase">>
      [] kind = "PragmaSleep" -> <<"sleep_time">>
      [] kind \in {"PragmaDamping", "PragmaDepolarising", "PragmaDephasing",
                   "PragmaGeneralNoise"} -> <<"gate_time", "rate">>
      [] kind = "PragmaRandomNoise" -> <<"gate_time", "depolarising_rate", "dephasing_rate">>
      [] OTHER -> <<>>

(***************************************************************************)
(* The tag lists: one constant per struct, returned by Operate::tags.      *)
(***************************************************************************)
TAGS_PragmaSetNumberOfMeasurements ==
    <<"Operation", "PragmaOperation", "PragmaSetNumberOfMeasurements">>
TAGS_PragmaSetStateVector == <<"Operation", "PragmaOperation", "PragmaSetStateVector">>
TAGS_PragmaSetDensityMatrix == <<"Operation", "PragmaOperation", "PragmaSetDensityMatrix">>
TAGS_PragmaRepeatGate == <<"Operation", "PragmaOperation", "PragmaRepeatGate">>
TAGS_PragmaOverrotation ==
    <<"Operation", "MultiQubitOperation", "PragmaOperation", "PragmaOverrotation">>
TAGS_PragmaBoostNoise == <<"Operation", "PragmaOperation", "PragmaBoostNoise">>
TAGS_PragmaStopParallelBlock ==
    <<"Operation", "MultiQubitOperation", "PragmaOperation", "PragmaStopParallelBlock">>
TAGS_PragmaGlobalPhase == <<"Operation", "PragmaOperation", "PragmaGlobalPhase">>
TAGS_PragmaSleep == <<"Operation", "MultiQubitOperation", "PragmaOperation", "PragmaSleep">>
TAGS_PragmaActiveReset ==
    <<"Operation", "SingleQubitOperation", "PragmaOperation", "PragmaActiveReset">>
TAGS_PragmaStartDecompositionBlock ==
    <<"Operation", "MultiQubitOperation", "PragmaOperation",
      "PragmaStartDecompositionBlock">>
TAGS_PragmaStopDecompositionBlock ==
    <<"Operation", "MultiQubitOperation", "PragmaOperation",
      "PragmaStopDecompositionBlock">>
\* variant of TAGS_PragmaDamping with one label written twice
TAGS_PragmaDamping_repeated ==
    <<"Operation", "SingleQubitOperation", "PragmaOperation", "PragmaOperation",
      "PragmaDamping">>
TAGS_PragmaDamping ==
    <<"Operation", "SingleQubitOperation", "PragmaOperation", "PragmaNoiseOperation",
      "PragmaDamping">>
TAGS_PragmaDepolarising ==
    <<"Operation", "SingleQubitOperation", "PragmaOperation", "PragmaNoiseOperation",
      "PragmaDepolarising">>
TAGS_PragmaDephasing ==
    <<"Operation", "SingleQubitOperation", "PragmaOperation", "PragmaNoiseOperation",
      "PragmaDephasing">>
TAGS_PragmaRandomNoise ==
    <<"Operation", "SingleQubitOperation", "PragmaOperation", "PragmaNoiseOperation",
      "PragmaRandomNoise">>
TAGS_PragmaGeneralNoise ==
    <<"Operation", "SingleQubitOperation", "PragmaOperation", "PragmaGeneralNoise">>
TAGS_PragmaConditional ==
    <<"Operation", "SingleQubitOperation", "PragmaOperation", "PragmaConditional">>

\* #[derive(roqoqo_derive::Operate)]: `fn tags(&self)` returns the struct's constant
tags(o) ==
    CASE o.kind = "PragmaSetNumberOfMeasurements" -> TAGS_PragmaSetNumberOfMeasurements
      [] o.kind = "PragmaSetStateVector" -> TAGS_PragmaSetStateVector
      [] o.kind = "PragmaSetDensityMatrix" -> TAGS_PragmaSetDensityMatrix
      [] o.kind = "PragmaRepeatGate" -> TAGS_PragmaRepeatGate
      [] o.kind = "PragmaOverrotation" -> TAGS_PragmaOverrotation
      [] o.kind = "PragmaBoostNoise" -> TAGS_PragmaBoostNoise
      [] o.kind = "PragmaStopParallelBlock" -> TAGS_PragmaStopParallelBlock
      [] o.kind = "PragmaGlobalPhase" -> TAGS_PragmaGlobalPhase
      [] o.kind = "PragmaSleep" -> TAGS_PragmaSleep
      [] o.kind = "PragmaActiveReset" -> TAGS_PragmaActiveReset
      [] o.kind = "PragmaStartDecompositionBlock" -> TAGS_PragmaStartDecompositionBlock
      [] o.kind = "PragmaStopDecompositionBlock" -> TAGS_PragmaStopDecompositionBlock
      [] o.kind = "PragmaDamping" -> TAGS_PragmaDamping
      [] o.kind = "PragmaDepolarising" -> TAGS_PragmaDepolarising
      [] o.kind = "PragmaDephasing" -> TAGS_PragmaDephasing
      [] o.kind = "PragmaRandomNoise" -> TAGS_PragmaRandomNoise
      [] o.kind = "PragmaGeneralNoise" -> TAGS_PragmaGeneralNoise
      [] o.kind = "PragmaConditional" -> TAGS_PragmaConditional

(***************************************************************************)
(* The inputs the model draws from.                                        *)
(***************************************************************************)
SeqsUpTo(S, n) == UNION {[1..k -> S] : k \in 0..n}
QubitLists == SeqsUpTo(Qubits, MaxLen)
Dictionaries ==
    UNION {[D -> Qubits] : D \in {X \in SUBSET Qubits : Cardinality(X) <= MaxDict}}
Mappings == UNION {[D -> Qubits] : D \in SUBSET Qubits}

GateTimes == {CFloat(R(0, 1)), CFloat(R(1, 1)), CFloat(R(2, 1)), CStr(<<"t">>)}
Rates == {CFloat(R(0, 1)), CFloat(R(1, 1)), CStr(<<"r">>)}
Exponents == {R(0, 1), R(1, 1), R(2, 1), R(1, 2), R(-1, 1)}
Calculators ==
    {<<>>, "t" :> R(2, 1), ("t" :> R(2, 1)) @@ ("r" :> R(1, 1))}

StateVectors == {<<1, 0>>, <<0, 1>>}
DensityMatrices == {<<<<1, 0>>, <<0, 0>>>>, <<<<0, 0>>, <<0, 1>>>>}
Operators == {<<<<1, 0, 0>>, <<0, 1, 0>>, <<0, 0, 1>>>>}
Counts == {1, 2}

\* operations without an embedded circuit
PlainOps ==
    {PragmaSetNumberOfMeasurements(n, "ro") : n \in Counts}
    \cup {PragmaSetStateVector(sv) : sv \in StateVectors}
    \cup {PragmaSetDensityMatrix(dm) : dm \in DensityMatrices}
    \cup {PragmaRepeatGate(n) : n \in Counts}
    \cup {PragmaOverrotation("RotateX", qs, 1, 1) : qs \in QubitLists}
    \cup {PragmaBoostNoise(c) : c \in GateTimes}
    \cup {PragmaStopParallelBlock(qs, t) : qs \in QubitLists, t \in GateTimes}
    \cup {PragmaGlobalPhase(ph) : ph \in GateTimes}
    \cup {PragmaSleep(qs, t) : qs \in QubitLists, t \in GateTimes}
    \cup {PragmaActiveReset(q) : q \in Qubits}
    \cup {PragmaStartDecompositionBlock(qs, d) : qs \in QubitLists, d \in Dictionaries}
    \cup {PragmaStopDecompositionBlock(qs) : qs \in QubitLists}
    \cup {PragmaDamping(q, gt, r) : q \in Qubits, gt \in GateTimes, r \in Rates}
    \cup {PragmaDepolarising(q, gt, r) : q \in Qubits, gt \in GateTimes, r \in Rates}
    \cup {PragmaDephasing(q, gt, r) : q \in Qubits, gt \in GateTimes, r \in Rates}
    \cup {PragmaRandomNoise(q, gt, dp, dh) :
            q \in Qubits, gt \in GateTimes, dp \in Rates, dh \in Rates}
    \cup {PragmaGeneralNoise(q, gt, r, o) :
            q \in Qubits, gt \in GateTimes, r \in Rates, o \in Operators}

\* the operations embedded circuits are built from
CircuitOps ==
    {PragmaActiveReset(q) : q \in Qubits}
    \cup {PragmaSetStateVector(<<1, 0>>), PragmaGlobalPhase(CStr(<<"t">>))}
    \cup {PragmaStartDecompositionBlock(<<>>, 0 :> q) : q \in Qubits}

Circuits == SeqsUpTo(CircuitOps, MaxLen)

Ops == PlainOps \cup {PragmaConditional("ro", i, c) : i \in {0, 1}, c \in Circuits}

(***************************************************************************)
(* InvolveQubits                                                           *)
(***************************************************************************)
IQ_None == [tag |-> "None", set |-> {}]
IQ_All == [tag |-> "All", set |-> {}]
IQ_Set(S) == [tag |-> "Set", set |-> S]

Range(f) == {f[i] : i \in DOMAIN f}

PragmaSetNumberOfMeasurements_involved_qubits(o) == IQ_None
PragmaSetStateVector_involved_qubits(o) == IQ_All
PragmaSetDensityMatrix_involved_qubits(o) == IQ_All
\* variant of PragmaRepeatGate::involved_qubits that looks at the payload
PragmaRepeatGate_involved_qubits_by_count(o) ==
    IF o.repetition_coefficient = 1 THEN IQ_All ELSE IQ_None
PragmaRepeatGate_involved_qubits(o) == IQ_All
PragmaBoostNoise_involved_qubits(o) == IQ_None
PragmaGlobalPhase_involved_qubits(o) == IQ_None

\* #[derive(roqoqo_derive::InvolveQubits)]: the `qubit` field, or the `qubits` list
derive_InvolveQubits(o) ==
    IF o.kind \in QubitFieldKinds THEN IQ_Set({o.qubit}) ELSE IQ_Set(Range(o.qubits))

RECURSIVE involved_qubits(_)

\* Circuit::involved_qubits: All if any operation involves all qubits, else
\* the union of the operations' sets, None when that union is empty
Circuit_involved_qubits(c) ==
    LET each == {involved_qubits(c[i]) : i \in DOMAIN c}
        union == UNION {iq.set : iq \in {x \in each : x.tag = "Set"}}
    IN  IF IQ_All \in each THEN IQ_All
        ELSE IF union = {} THEN IQ_None
        ELSE IQ_Set(union)

\* variant of PragmaConditional::involved_qubits that counts the condition bit
PragmaConditional_involved_qubits_with_index(o) ==
    LET r == Circuit_involved_qubits(o.circuit) IN
    IF r.tag = "Set" THEN IQ_Set(r.set \cup {o.condition_index}) ELSE r

PragmaConditional_involved_qubits(o) == Circuit_involved_qubits(o.circuit)

involved_qubits(o) ==
    CASE o.kind = "PragmaSetNumberOfMeasurements" ->
            PragmaSetNumberOfMeasurements_involved_qubits(o)
      [] o.kind = "PragmaSetStateVector" -> PragmaSetStateVector_involved_qubits(o)
      [] o.kind = "PragmaSetDensityMatrix" -> PragmaSetDensityMatrix_involved_qubits(o)
      [] o.kind = "PragmaRepeatGate" -> PragmaRepeatGate_involved_qubits(o)
      [] o.kind = "PragmaBoostNoise" -> PragmaBoostNoise_involved_qubits(o)
      [] o.kind = "PragmaGlobalPhase" -> PragmaGlobalPhase_involved_qubits(o)
      [] o.kind = "PragmaConditional" -> PragmaConditional_involved_qubits(o)
      [] OTHER -> derive_InvolveQubits(o)

(***************************************************************************)
(* Substitute::remap_qubits.  A call yields one of a set of outcomes: the  *)
(* set has more than one element only where the code iterates a HashMap,   *)
(* whose order is unspecified.                                             *)
(***************************************************************************)
\* the loop `for q in &self.qubits { new_qubits.push(*mapping.get(q)...?) }`
RemapList(qubits, mapping) ==
    LET missing == {i \in DOMAIN qubits : qubits[i] \notin DOMAIN mapping} IN
    IF missing = {} THEN Ok([i \in DOMAIN qubits |-> mapping[qubits[i]]])
    ELSE Err(QubitMappingError(
            qubits[CHOOSE i \in missing : \A j \in missing : i <= j]))

\* HashMap::insert
Insert(d, k, v) == [x \in DOMAIN d \cup {k} |-> IF x = k THEN v ELSE d[x]]

\* the orders in which a HashMap's entries can be iterated
IterationOrders(d) ==
    {o \in [1..Cardinality(DOMAIN d) -> DOMAIN d] :
        \A i, j \in DOMAIN o : i # j => o[i] # o[j]}

\* the loop `for (old_qubit, new_qubit) in self.reordering_dictionary.clone()`
RECURSIVE RemapReordering(_, _, _, _, _)
RemapReordering(d, mapping, order, i, mutable_reordering) ==
    IF i > Len(order) THEN Ok(mutable_reordering)
    ELSE LET old_qubit == order[i]
             new_qubit == d[old_qubit]
         IN  IF old_qubit \notin DOMAIN mapping THEN Err(QubitMappingError(old_qubit))
             ELSE IF new_qubit \notin DOMAIN mapping THEN Err(QubitMappingError(new_qubit))
             ELSE RemapReordering(d, mapping, order, i + 1,
                    Insert(mutable_reordering, mapping[old_qubit], mapping[new_qubit]))

\* variant of PragmaStartDecompositionBlock::remap_qubits that looks the
\* dictionary qubits up but passes on the old dictionary
PragmaStartDecompositionBlock_remap_qubits_old_dictionary(o, mapping) ==
    LET new_qubits == RemapList(o.qubits, mapping) IN
    IF new_qubits.status = "Err" THEN {new_qubits}
    ELSE { LET r == RemapReordering(o.reordering_dictionary, mapping, order, 1, <<>>)
           IN  IF r.status = "Err" THEN r
               ELSE Ok(PragmaStartDecompositionBlock(new_qubits.value,
                                                     o.reordering_dictionary))
           : order \in IterationOrders(o.reordering_dictionary) }

PragmaStartDecompositionBlock_remap_qubits(o, mapping) ==
    LET new_qubits == RemapList(o.qubits, mapping) IN
    IF new_qubits.status = "Err" THEN {new_qubits}
    ELSE { LET r == RemapReordering(o.reordering_dictionary, mapping, order, 1, <<>>)
           IN  IF r.status = "Err" THEN r
               ELSE Ok(PragmaStartDecompositionBlock(new_qubits.value, r.value))
           : order \in IterationOrders(o.reordering_dictionary) }

\* #[derive(roqoqo_derive::Substitute)]: every qubit field is looked up in the mapping
derive_Substitute_remap_qubits(o, mapping) ==
    IF o.kind \in QubitFieldKinds THEN
        IF o.qubit \in DOMAIN mapping
        THEN {Ok([o EXCEPT !.qubit = mapping[o.qubit]])}
        ELSE {Err(QubitMappingError(o.qubit))}
    ELSE IF o.kind \in QubitsFieldKinds THEN
        LET r == RemapList(o.qubits, mapping) IN
        IF r.status = "Err" THEN {r} ELSE {Ok([o EXCEPT !.qubits = r.value])}
    ELSE {Ok(o)}

RECURSIVE remap_qubits(_, _)

\* Circuit::remap_qubits: `new.push(op.remap_qubits(mapping)?)` for each operation
RECURSIVE Circuit_remap_qubits(_, _)
Circuit_remap_qubits(c, mapping) ==
    IF c = <<>> THEN {Ok(<<>>)}
    ELSE UNION {
            IF h.status # "Ok" THEN {h}
            ELSE {IF t.status = "Ok" THEN Ok(<<h.value>> \o t.value) ELSE t :
                    t \in Circuit_remap_qubits(Tail(c), mapping)}
            : h \in remap_qubits(Head(c), mapping)}

\* variant of PragmaConditional::remap_qubits that passes on self.circuit
PragmaConditional_remap_qubits_old_circuit(o, mapping) ==
    {IF r.status = "Ok" THEN Ok(o) ELSE Panic
     : r \in Circuit_remap_qubits(o.circuit, mapping)}

\* `self.circuit.remap_qubits(mapping).unwrap()`: an Err aborts the call
PragmaConditional_remap_qubits(o, mapping) ==
    {IF r.status = "Ok"
        THEN Ok(PragmaConditional(o.condition_register, o.condition_index, r.value))
        ELSE Panic
     : r \in Circuit_remap_qubits(o.circuit, mapping)}

remap_qubits(o, mapping) ==
    CASE o.kind = "PragmaStartDecompositionBlock" ->
            PragmaStartDecompositionBlock_remap_qubits(o, mapping)
      [] o.kind = "PragmaConditional" -> PragmaConditional_remap_qubits(o, mapping)
      [] OTHER -> derive_Substitute_remap_qubits(o, mapping)

\* the qubits an operation's remap looks up
RECURSIVE UsedQubits(_)
UsedQubits(o) ==
    CASE o.kind \in QubitFieldKinds -> {o.qubit}
      [] o.kind = "PragmaStartDecompositionBlock" ->
            Range(o.qubits) \cup DOMAIN o.reordering_dictionary
                \cup Range(o.reordering_dictionary)
      [] o.kind \in QubitsFieldKinds \ {"PragmaStartDecompositionBlock"} -> Range(o.qubits)
      [] o.kind = "PragmaConditional" ->
            UNION {UsedQubits(o.circuit[i]) : i \in DOMAIN o.circuit}
      [] OTHER -> {}

(***************************************************************************)
(* Substitute::substitute_parameters                                       *)
(***************************************************************************)
\* #[derive(roqoqo_derive::Substitute)]: every CalculatorFloat field, in order,
\* becomes CalculatorFloat::from(calculator.parse_get(field)?)
RECURSIVE SubstituteFields(_, _, _, _)
SubstituteFields(o, fields, i, calc) ==
    IF i > Len(fields) THEN Ok(o)
    ELSE LET r == Calculator_parse_get(calc, o[fields[i]]) IN
         IF r.status = "Err" THEN r
         ELSE SubstituteFields([o EXCEPT ![fields[i]] = CFloat(r.value)], fields, i + 1, calc)

derive_Substitute_substitute_parameters(o, calc) ==
    SubstituteFields(o, ParamFields(o.kind), 1, calc)

PragmaStartDecompositionBlock_substitute_parameters(o, calc) == Ok(o)

RECURSIVE substitute_parameters(_, _)

\* Circuit::substitute_parameters: `new.push(op.substitute_parameters(calculator)?)`
RECURSIVE Circuit_substitute_parameters(_, _)
Circuit_substitute_parameters(c, calc) ==
    IF c = <<>> THEN Ok(<<>>)
    ELSE LET h == substitute_parameters(Head(c), calc) IN
         IF h.status # "Ok" THEN h
         ELSE LET t == Circuit_substitute_parameters(Tail(c), calc) IN
              IF t.status = "Ok" THEN Ok(<<h.value>> \o t.value) ELSE t

\* `self.circuit.substitute_parameters(calculator).unwrap()`: an Err aborts the call
PragmaConditional_substitute_parameters(o, calc) ==
    LET r == Circuit_substitute_parameters(o.circuit, calc) IN
    IF r.status = "Ok"
    THEN Ok(PragmaConditional(o.condition_register, o.condition_index, r.value))
    ELSE Panic

substitute_parameters(o, calc) ==
    CASE o.kind = "PragmaStartDecompositionBlock" ->
            PragmaStartDecompositionBlock_substitute_parameters(o, calc)
      [] o.kind = "PragmaConditional" -> PragmaConditional_substitute_parameters(o, calc)
      [] OTHER -> derive_Substitute_substitute_parameters(o, calc)

(***************************************************************************)
(* OperatePragmaNoise: superoperator, probability, powercf                 *)
(***************************************************************************)
Matrix4(r1, r2, r3, r4) == <<r1, r2, r3, r4>>

\* variant of PragmaDamping::superoperator with the corner entries exchanged
PragmaDamping_superoperator_swapped(o) ==
    LET gate_time == f64_try_from(o.gate_time)
        rate == f64_try_from(o.rate)
    IN  IF gate_time.status = "Err" THEN gate_time
        ELSE IF rate.status = "Err" THEN rate
        ELSE LET pre_exp == RealMul(RealMul(R(-1, 1), gate_time.value), rate.value)
                 prob == RealSub(R(1, 1), RealExp(pre_exp))
                 sqrt == RealSqrt(RealSub(R(1, 1), prob))
             IN  Ok(Matrix4(<<R(1, 1), R(0, 1), R(0, 1), RealSub(R(1, 1), prob)>>,
                            <<R(0, 1), sqrt, R(0, 1), R(0, 1)>>,
                            <<R(0, 1), R(0, 1), sqrt, R(0, 1)>>,
                            <<R(0, 1), R(0, 1), R(0, 1), prob>>))

PragmaDamping_superoperator(o) ==
    LET gate_time == f64_try_from(o.gate_time)
        rate == f64_try_from(o.rate)
    IN  IF gate_time.status = "Err" THEN gate_time
        ELSE IF rate.status = "Err" THEN rate
        ELSE LET pre_exp == RealMul(RealMul(R(-1, 1), gate_time.value), rate.value)
                 prob == RealSub(R(1, 1), RealExp(pre_exp))
                 sqrt == RealSqrt(RealSub(R(1, 1), prob))
             IN  Ok(Matrix4(<<R(1, 1), R(0, 1), R(0, 1), prob>>,
                            <<R(0, 1), sqrt, R(0, 1), R(0, 1)>>,
                            <<R(0, 1), R(0, 1), sqrt, R(0, 1)>>,
                            <<R(0, 1), R(0, 1), R(0, 1), RealSub(R(1, 1), prob)>>))

PragmaDepolarising_superoperator(o) ==
    LET gate_time == f64_try_from(o.gate_time)
        rate == f64_try_from(o.rate)
    IN  IF gate_time.status = "Err" THEN gate_time
        ELSE IF rate.status = "Err" THEN rate
        ELSE LET pre_exp == RealMul(RealMul(R(-1, 1), gate_time.value), rate.value)
                 prob == RealMul(R(3, 4), RealSub(R(1, 1), RealExp(pre_exp)))
                 proba1 == RealSub(R(1, 1), RealMul(R(2, 3), prob))
                 proba2 == RealSub(R(1, 1), RealMul(R(4, 3), prob))
                 proba3 == RealMul(R(2, 3), prob)
             IN  Ok(Matrix4(<<proba1, R(0, 1), R(0, 1), proba3>>,
                            <<R(0, 1), proba2, R(0, 1), R(0, 1)>>,
                            <<R(0, 1), R(0, 1), proba2, R(0, 1)>>,
                            <<proba3, R(0, 1), R(0, 1), proba1>>))

\* the matrix PragmaDephasing and PragmaRandomNoise build from gate_time and a rate
DephasingMatrix(gate_time, rate) ==
    LET pre_exp == RealMul(RealMul(R(-2, 1), gate_time), rate)
        prob == RealMul(R(1, 2), RealSub(R(1, 1), RealExp(pre_exp)))
        d == RealSub(R(1, 1), RealMul(R(2, 1), prob))
    IN  Matrix4(<<R(1, 1), R(0, 1), R(0, 1), R(0, 1)>>,
                <<R(0, 1), d, R(0, 1), R(0, 1)>>,
                <<R(0, 1), R(0, 1), d, R(0, 1)>>,
                <<R(0, 1), R(0, 1), R(0, 1), R(1, 1)>>)

PragmaDephasing_superoperator(o) ==
    LET gate_time == f64_try_from(o.gate_time)
        rate == f64_try_from(o.rate)
    IN  IF gate_time.status = "Err" THEN gate_time
        ELSE IF rate.status = "Err" THEN rate
        ELSE Ok(DephasingMatrix(gate_time.value, rate.value))

\* variant of PragmaRandomNoise::superoperator that converts both rates
PragmaRandomNoise_superoperator_both_rates(o) ==
    LET gate_time == f64_try_from(o.gate_time)
        depol == f64_try_from(o.depolarising_rate)
        rate == f64_try_from(o.dephasing_rate)
    IN  IF gate_time.status = "Err" THEN gate_time
        ELSE IF depol.status = "Err" THEN depol
        ELSE IF rate.status = "Err" THEN rate
        ELSE Ok(DephasingMatrix(gate_time.value, rate.value))

PragmaRandomNoise_superoperator(o) ==
    LET gate_time == f64_try_from(o.gate_time)
        rate == f64_try_from(o.dephasing_rate)
    IN  IF gate_time.status = "Err" THEN gate_time
        ELSE IF rate.status = "Err" THEN rate
        ELSE Ok(DephasingMatrix(gate_time.value, rate.value))

superoperator(o) ==
    CASE o.kind = "PragmaDamping" -> PragmaDamping_superoperator(o)
      [] o.kind = "PragmaDepolarising" -> PragmaDepolarising_superoperator(o)
      [] o.kind = "PragmaDephasing" -> PragmaDephasing_superoperator(o)
      [] o.kind = "PragmaRandomNoise" -> PragmaRandomNoise_superoperator(o)

\* ((gate_time * rate * c).exp() * (-1.0) + 1.0) * f
ExpProbability(gate_time, rate, c, f) ==
    CalculatorFloat_mul(
        CalculatorFloat_add(
            CalculatorFloat_mul(
                CalculatorFloat_exp(
                    CalculatorFloat_mul(CalculatorFloat_mul(gate_time, rate), CFloat(c))),
                CFloat(R(-1, 1))),
            CFloat(R(1, 1))),
        CFloat(f))

PragmaDamping_probability(o) == ExpProbability(o.gate_time, o.rate, R(-2, 1), R(1, 2))
PragmaDepolarising_probability(o) == ExpProbability(o.gate_time, o.rate, R(-1, 1), R(3, 4))
PragmaDephasing_probability(o) == ExpProbability(o.gate_time, o.rate, R(-2, 1), R(1, 2))

PragmaRandomNoise_probability(o) ==
    LET rates == <<CalculatorFloat_div(o.depolarising_rate, R(4, 1)),
                   CalculatorFloat_div(o.depolarising_rate, R(4, 1)),
                   CalculatorFloat_add(CalculatorFloat_div(o.depolarising_rate, R(4, 1)),
                                       o.dephasing_rate)>>
    IN  CalculatorFloat_mul(
            CalculatorFloat_add(CalculatorFloat_add(rates[1], rates[2]), rates[3]),
            o.gate_time)

probability(o) ==
    CASE o.kind = "PragmaDamping" -> PragmaDamping_probability(o)
      [] o.kind = "PragmaDepolarising" -> PragmaDepolarising_probability(o)
      [] o.kind = "PragmaDephasing" -> PragmaDephasing_probability(o)
      [] o.kind = "PragmaRandomNoise" -> PragmaRandomNoise_probability(o)

\* variant of powercf that rescales the rate instead of the gate time
PragmaDamping_powercf_rate(o, power) ==
    [o EXCEPT !.rate = CalculatorFloat_mul(power, o.rate)]
\* variant of powercf that forgets the old gate time
PragmaDephasing_powercf_overwrite(o, power) ==
    [o EXCEPT !.gate_time = power]

\* `let mut new = self.clone(); new.gate_time = power * self.gate_time.clone(); new`
PragmaDamping_powercf(o, power) ==
    [o EXCEPT !.gate_time = CalculatorFloat_mul(power, o.gate_time)]
PragmaDepolarising_powercf(o, power) ==
    [o EXCEPT !.gate_time = CalculatorFloat_mul(power, o.gate_time)]
PragmaDephasing_powercf(o, power) ==
    [o EXCEPT !.gate_time = CalculatorFloat_mul(power, o.gate_time)]
PragmaRandomNoise_powercf(o, power) ==
    [o EXCEPT !.gate_time = CalculatorFloat_mul(power, o.gate_time)]

powercf(o, power) ==
    CASE o.kind = "PragmaDamping" -> PragmaDamping_powercf(o, power)
      [] o.kind = "PragmaDepolarising" -> PragmaDepolarising_powercf(o, power)
      [] o.kind = "PragmaDephasing" -> PragmaDephasing_powercf(o, power)
      [] o.kind = "PragmaRandomNoise" -> PragmaRandomNoise_powercf(o, power)

(***************************************************************************)
(* The state machine: a caller holds `op` and invokes its methods.  Every  *)
(* method takes &self, so `op` is left as it is; `result` records the      *)
(* call, its argument and its outcome until the caller drops it (Discard)  *)
(* or continues with the operation the call returned (Adopt), remembering  *)
(* in `prev` where that operation came from.                               *)
(***************************************************************************)
NoCall == [call |-> "none"]
NoPrev == [call |-> "none"]

Call(name, arg, out) == [call |-> name, arg |-> arg, out |-> out]

Tags ==
    /\ result = NoCall
    /\ result' = Call("tags", <<>>, tags(op))
    /\ UNCHANGED <<op, prev, depth>>

InvolvedQubits ==
    /\ result = NoCall
    /\ result' = Call("involved_qubits", <<>>, involved_qubits(op))
    /\ UNCHANGED <<op, prev, depth>>

RemapQubits ==
    /\ result = NoCall
    /\ \E mapping \in Mappings :
         \E r \in remap_qubits(op, mapping) :
            result' = Call("remap_qubits", mapping, r)
    /\ UNCHANGED <<op, prev, depth>>

SubstituteParameters ==
    /\ result = NoCall
    /\ \E calc \in Calculators :
         result' = Call("substitute_parameters", calc, substitute_parameters(op, calc))
    /\ UNCHANGED <<op, prev, depth>>

Superoperator ==
    /\ result = NoCall
    /\ op.kind \in NoiseKinds
    /\ result' = Call("superoperator", <<>>, superoperator(op))
    /\ UNCHANGED <<op, prev, depth>>

Probability ==
    /\ result = NoCall
    /\ op.kind \in NoiseKinds
    /\ result' = Call("probability", <<>>, probability(op))
    /\ UNCHANGED <<op, prev, depth>>

Power ==
    /\ result = NoCall
    /\ op.kind \in NoiseKinds
    /\ \E k \in Exponents :
         result' = Call("power", k, Ok(powercf(op, CFloat(k))))
    /\ UNCHANGED <<op, prev, depth>>

\* the caller drops the returned value and is ready for the next call
Discard ==
    /\ result # NoCall
    /\ result' = NoCall
    /\ UNCHANGED <<op, prev, depth>>

Adopt ==
    /\ depth < MaxChain
    /\ result.call \in {"remap_qubits", "substitute_parameters", "power"}
    /\ result.out.status = "Ok"
    /\ op' = result.out.value
    /\ prev' = [call |-> result.call, arg |-> result.arg, op |-> op]
    /\ result' = NoCall
    /\ depth' = depth + 1

Init ==
    /\ op \in Ops
    /\ result = NoCall
    /\ prev = NoPrev
    /\ depth = 0

Next ==
    \/ Tags
    \/ InvolvedQubits
    \/ RemapQubits
    \/ SubstituteParameters
    \/ Superoperator
    \/ Probability
    \/ Power
    \/ Discard

Spec == Init /\ [][Next]_vars

\* a caller working on one noise operation, rescaling and resolving it step by step
InitNoise ==
    /\ op \in {o \in PlainOps : o.kind \in NoiseKinds}
    /\ result = NoCall
    /\ prev = NoPrev
    /\ depth = 0

NextNoise ==
    \/ SubstituteParameters
    \/ Superoperator
    \/ Probability
    \/ Power
    \/ Discard
    \/ Adopt

SpecNoise == InitNoise /\ [][NextNoise]_vars

(***************************************************************************)
(* Properties of remap_qubits                                              *)
(***************************************************************************)
Remapped == result.call = "remap_qubits"
MissingQubits == UsedQubits(op) \ DOMAIN result.arg

\* C1: for every variant and every mapping, remap_qubits returns
\* QubitMappingError(q) exactly when some used qubit is absent from the
\* mapping's keys, q is such an absent used qubit, and otherwise it succeeds.
C1_RemapFailsExactlyOnMissingQubit ==
    Remapped =>
        IF MissingQubits = {} THEN result.out.status = "Ok"
        ELSE /\ result.out.status = "Err"
             /\ result.out.error.name = "QubitMappingError"
             /\ result.out.error.qubit \in MissingQubits

\* The same statement for the variants other than PragmaConditional, where it
\* holds: the only departure from C1 is the abort in PragmaConditional.
C1_HoldsExceptConditional ==
    op.kind # "PragmaConditional" => C1_RemapFailsExactlyOnMissingQubit

\* C2: when the embedded circuit's remap_qubits fails with
\* QubitMappingError(q), PragmaConditional::remap_qubits returns that same
\* error value to the caller.
C2_ConditionalRemapSurfacesError ==
    (Remapped /\ op.kind = "PragmaConditional") =>
        LET subs == Circuit_remap_qubits(op.circuit, result.arg) IN
        (\A r \in subs : r.status = "Err") => result.out \in subs

\* C3: when the embedded circuit's substitute_parameters fails,
\* PragmaConditional::substitute_parameters returns that same failure as an
\* error value and the receiver is not modified.
C3_ConditionalSubstituteSurfacesError ==
    [][(/\ result.call = "none"
        /\ result'.call = "substitute_parameters"
        /\ op.kind = "PragmaConditional"
        /\ Circuit_substitute_parameters(op.circuit, result'.arg).status = "Err")
       => (/\ result'.out = Circuit_substitute_parameters(op.circuit, result'.arg)
           /\ op' = op)]_vars

\* C4: for an operation whose involved_qubits is an explicit set and a mapping
\* that covers all its used qubits, remap_qubits succeeds and the involved
\* qubits of the result are the image of the original involved qubits.
C4_RemapIsHomomorphism ==
    (/\ Remapped
     /\ involved_qubits(op).tag = "Set"
     /\ MissingQubits = {})
    => /\ result.out.status = "Ok"
       /\ involved_qubits(result.out.value)
            = IQ_Set({result.arg[q] : q \in involved_qubits(op).set})

\* a conditional whose circuit touches two qubits, remapped onto one
C4_Witness ==
    /\ Remapped
    /\ op.kind = "PragmaConditional"
    /\ involved_qubits(op) = IQ_Set({0, 1})
    /\ result.arg = (0 :> 1) @@ (1 :> 1)
    /\ result.out.status = "Ok"
    /\ involved_qubits(result.out.value) = IQ_Set({1})

(***************************************************************************)
(* Properties of involved_qubits                                           *)
(***************************************************************************)
\* the qubits the operations of a circuit name, read off their fields
TouchedBy(c) ==
    UNION {IF c[i].kind \in QubitFieldKinds THEN {c[i].qubit}
           ELSE IF c[i].kind \in QubitsFieldKinds THEN Range(c[i].qubits)
           ELSE {} : i \in DOMAIN c}

\* C5: involved_qubits of a PragmaConditional is the aggregate involvement of
\* its circuit (All if an operation involves all qubits, else the qubits the
\* operations name) and never depends on condition_register or condition_index.
C5_ConditionalInvolvesCircuitQubits ==
    (result.call = "involved_qubits" /\ op.kind = "PragmaConditional") =>
        result.out =
            IF \E i \in DOMAIN op.circuit : op.circuit[i].kind \in AllKinds THEN IQ_All
            ELSE IF TouchedBy(op.circuit) = {} THEN IQ_None
            ELSE IQ_Set(TouchedBy(op.circuit))

\* condition_index 1, circuit on qubit 0 only: the index is not in the set
C5_Witness ==
    /\ result.call = "involved_qubits"
    /\ op.kind = "PragmaConditional"
    /\ op.condition_index = 1
    /\ op.circuit = <<PragmaActiveReset(0), PragmaGlobalPhase(CStr(<<"t">>))>>
    /\ result.out = IQ_Set({0})

\* C6: involved_qubits is None for PragmaSetNumberOfMeasurements,
\* PragmaBoostNoise and PragmaGlobalPhase and All for PragmaSetStateVector,
\* PragmaSetDensityMatrix and PragmaRepeatGate, whatever the payload and on
\* every call.
C6_NoneAndAllVariants ==
    result.call = "involved_qubits" =>
        /\ op.kind \in NoneKinds => result.out = IQ_None
        /\ op.kind \in AllKinds => result.out = IQ_All

C6_Witness ==
    /\ result.call = "involved_qubits"
    /\ op = PragmaRepeatGate(2)
    /\ result.out = IQ_All

(***************************************************************************)
(* Properties of the noise channel functions                               *)
(***************************************************************************)
IsSymbolic(x) == x.tag = "Str"
Is4x4(m) == Len(m) = 4 /\ \A i \in 1..4 : Len(m[i]) = 4

\* the rate superoperator reads: dephasing_rate for PragmaRandomNoise
ChannelRate(o) == IF o.kind = "PragmaRandomNoise" THEN o.dephasing_rate ELSE o.rate

SuperoperatorStep == result.call = "none" /\ result'.call = "superoperator"

\* C7: superoperator returns an error value and no matrix whenever gate_time
\* or a rate parameter of the operation is symbolic, a 4x4 matrix whenever
\* gate_time and the rate parameter(s) are concrete, and leaves the operation
\* unchanged.
C7_SuperoperatorFailsOnAnySymbolicParameter ==
    [][SuperoperatorStep =>
        /\ IF \E i \in DOMAIN ParamFields(op.kind) : IsSymbolic(op[ParamFields(op.kind)[i]])
           THEN result'.out.status = "Err"
           ELSE result'.out.status = "Ok" /\ Is4x4(result'.out.value)
        /\ op' = op]_vars

\* C7 as the code has it: for PragmaRandomNoise the rate that matters is
\* dephasing_rate alone; a symbolic depolarising_rate does not make
\* superoperator fail.
C7_SuperoperatorFailsOnSymbolicChannelParameter ==
    [][SuperoperatorStep =>
        /\ IF IsSymbolic(op.gate_time) \/ IsSymbolic(ChannelRate(op))
           THEN result'.out.status = "Err"
           ELSE result'.out.status = "Ok" /\ Is4x4(result'.out.value)
        /\ op' = op]_vars

\* a random-noise operation with only depolarising_rate symbolic gets a matrix
C7_Witness ==
    /\ result.call = "superoperator"
    /\ op.kind = "PragmaRandomNoise"
    /\ IsSymbolic(op.depolarising_rate)
    /\ ~IsSymbolic(op.gate_time)
    /\ ~IsSymbolic(op.dephasing_rate)
    /\ result.out.status = "Ok"
    /\ Is4x4(result.out.value)

Identity4 ==
    <<<<R(1, 1), R(0, 1), R(0, 1), R(0, 1)>>,
      <<R(0, 1), R(1, 1), R(0, 1), R(0, 1)>>,
      <<R(0, 1), R(0, 1), R(1, 1), R(0, 1)>>,
      <<R(0, 1), R(0, 1), R(0, 1), R(1, 1)>>>>

ValueUnder(calc, x) == Calculator_parse_get(calc, x)

PowerStep == result.call = "none" /\ result'.call = "power"

\* C9: power(op, exponent) returns a new operation whose gate_time is the
\* exponent times op's gate_time (whatever the evaluator, it resolves to the
\* product exactly when op's gate_time resolves, or is 0 for exponent 0),
\* whose qubit and rate fields are op's, and op is unchanged.
C9_PowerScalesGateTime ==
    [][PowerStep =>
        LET new == result'.out.value
            k == result'.arg
        IN  /\ result'.out.status = "Ok"
            /\ \A calc \in Calculators :
                 LET old == ValueUnder(calc, op.gate_time) IN
                 IF old.status = "Ok"
                 THEN ValueUnder(calc, new.gate_time) = Ok(RealMul(k, old.value))
                 ELSE IF k = R(0, 1) THEN new.gate_time = CFloat(R(0, 1))
                 ELSE ValueUnder(calc, new.gate_time).status = "Err"
            /\ IsSymbolic(new.gate_time) => IsSymbolic(op.gate_time)
            /\ DOMAIN new = DOMAIN op
            /\ \A f \in DOMAIN op \ {"gate_time"} : new[f] = op[f]
            /\ op' = op]_vars

\* a symbolic gate time doubled
C9_Witness ==
    /\ result.call = "power"
    /\ result.arg = R(2, 1)
    /\ op.gate_time = CStr(<<"t">>)
    /\ result.out.value.gate_time = CStr(<<"(", "2e0", "*", "t", ")">>)
    /\ result.out.value.qubit = op.qubit

\* power(op, k) adopted, then power(.., 1/k) called on it, k # 0
PowerThenInverse ==
    /\ prev.call = "power"
    /\ result.call = "power"
    /\ prev.arg # R(0, 1)
    /\ result.arg = RealInv(prev.arg)

NoDuplicates(s) == \A i, j \in DOMAIN s : i # j => s[i] # s[j]

\* the operation a call handed back, if it handed one back
ReturnsOperation ==
    /\ result.call \in {"remap_qubits", "substitute_parameters", "power"}
    /\ result.out.status = "Ok"

\* C11: for each of the 18 variants the tag list is non-empty, starts with
\* "Operation", contains "PragmaOperation", ends with the variant's own type
\* name, has no duplicates, and is the same list for every instance of the
\* variant, whatever its payload, and for every operation a call returned.
C11_TagListWellFormedAndFixed ==
    /\ result.call = "tags" =>
        /\ Len(result.out) > 0
        /\ result.out[1] = "Operation"
        /\ "PragmaOperation" \in Range(result.out)
        /\ result.out[Len(result.out)] = op.kind
        /\ NoDuplicates(result.out)
        /\ \A other \in Ops : other.kind = op.kind => tags(other) = result.out
    /\ ReturnsOperation => tags(result.out.value) = tags(op)

\* the tags of a damping operation with a symbolic gate time
C11_Witness ==
    /\ result.call = "tags"
    /\ op.kind = "PragmaDamping"
    /\ IsSymbolic(op.gate_time)
    /\ result.out = <<"Operation", "SingleQubitOperation", "PragmaOperation",
                      "PragmaNoiseOperation", "PragmaDamping">>

(***************************************************************************)
(* Frame properties: what a call leaves alone and what a failure hands back *)
(***************************************************************************)
CallStep == result.call = "none" /\ result'.call # "none"

\* a remap_qubits call with a used qubit absent from the mapping
FailingRemapStep ==
    /\ CallStep
    /\ result'.call = "remap_qubits"
    /\ UsedQubits(op) \ DOMAIN result'.arg # {}

\* C12: every call (tags, involved_qubits, remap_qubits, substitute_parameters,
\* superoperator, probability, power), succeeding or failing, leaves the
\* receiver equal to what it was, so it is unchanged after any sequence of
\* calls; and a failing remap_qubits yields the error value and nothing else,
\* never a partially remapped operation.
C12_ReceiverUnchangedAndFailureYieldsOnlyError ==
    [][/\ op' = op
       /\ FailingRemapStep =>
            /\ result'.out.status = "Err"
            /\ DOMAIN result'.out = {"status", "error"}
            /\ result'.out.error.name = "QubitMappingError"]_vars

\* What holds of the code: the receiver is never altered, no failing
\* remap_qubits hands back an operation, and every variant but
\* PragmaConditional hands back the error value.
C12_HoldsExceptConditionalAbort ==
    [][/\ op' = op
       /\ FailingRemapStep =>
            /\ "value" \notin DOMAIN result'.out
            /\ op.kind # "PragmaConditional" =>
                 /\ result'.out.status = "Err"
                 /\ DOMAIN result'.out = {"status", "error"}
                 /\ result'.out.error.name = "QubitMappingError"]_vars

\* a decomposition block whose qubits are covered and whose dictionary is not
C12_PartialCoverage ==
    /\ Remapped
    /\ op.kind = "PragmaStartDecompositionBlock"
    /\ Range(op.qubits) # {}
    /\ Range(op.qubits) \subseteq DOMAIN result.arg
    /\ DOMAIN op.reordering_dictionary \ DOMAIN result.arg # {}
    /\ result.out = Err(QubitMappingError(1))

(***************************************************************************)
(* Tags against capabilities                                               *)
(***************************************************************************)
\* the struct stores one `qubit` index and involves exactly that qubit
IsSingleQubit(o) == "qubit" \in DOMAIN o /\ involved_qubits(o) = IQ_Set({o.qubit})
\* the struct stores a `qubits` list
IsMultiQubit(o) == "qubits" \in DOMAIN o
\* OperatePragmaNoise (superoperator, probability, powercf) is implemented
IsPragmaNoise(o) == o.kind \in NoiseKinds

\* C13: for all 18 variants the tag list contains "SingleQubitOperation"
\* exactly when the variant stores a single `qubit` and involves exactly that
\* qubit, "MultiQubitOperation" exactly when it stores a `qubits` list, and
\* "PragmaNoiseOperation" exactly when the noise functions are implemented.
C13_TagsAgreeWithCapabilities ==
    result.call = "tags" =>
        /\ ("SingleQubitOperation" \in Range(result.out)) <=> IsSingleQubit(op)
        /\ ("MultiQubitOperation" \in Range(result.out)) <=> IsMultiQubit(op)
        /\ ("PragmaNoiseOperation" \in Range(result.out)) <=> IsPragmaNoise(op)

\* The same statement for the variants other than PragmaConditional, where
\* it holds; PragmaConditional carries "SingleQubitOperation" without a
\* `qubit` field.
C13_HoldsExceptConditional ==
    op.kind # "PragmaConditional" => C13_TagsAgreeWithCapabilities

(***************************************************************************)
(* Determinism of remap_qubits                                             *)
(***************************************************************************)
\* every outcome a remap_qubits call with these arguments can have
RemapOutcomes == remap_qubits(op, result.arg)

\* C14: the outcome of remap_qubits is a function of (operation, mapping):
\* any two calls with equal operations and equal mappings return equal
\* results and, when they fail, name the same qubit; also for a
\* PragmaStartDecompositionBlock with several dictionary qubits missing.
C14_RemapIsDeterministic ==
    Remapped => \A other \in RemapOutcomes : other = result.out

\* The same statement for the variants other than
\* PragmaStartDecompositionBlock, where it holds: only the iteration over
\* the reordering dictionary has no fixed order.
C14_HoldsExceptDecompositionBlock ==
    op.kind # "PragmaStartDecompositionBlock" => C14_RemapIsDeterministic

\* two calls on the same block and mapping that name different qubits
C14_TwoErrors ==
    /\ Remapped
    /\ op = PragmaStartDecompositionBlock(<<>>, (0 :> 0) @@ (1 :> 1))
    /\ result.arg = <<>>
    /\ result.out = Err(QubitMappingError(1))
    /\ Err(QubitMappingError(0)) \in RemapOutcomes

(***************************************************************************)
(* PragmaStartDecompositionBlock::remap_qubits with an injective mapping    *)
(***************************************************************************)
InjectiveOn(m, S) == \A p, q \in S \cap DOMAIN m : m[p] = m[q] => p = q
IsIdentity(m) == \A q \in DOMAIN m : m[q] = q

\* C15: when PragmaStartDecompositionBlock::remap_qubits succeeds with a
\* mapping m injective on the used qubits, the result's `qubits` is the
\* element-wise image of the original list (same length and order), the
\* result's reordering dictionary holds exactly the entries m[k] -> m[v] of
\* the original entries k -> v (so as many entries), and with the identity
\* mapping the result equals the original operation.
C15_DecompositionBlockRemapIsImage ==
    (/\ Remapped
     /\ op.kind = "PragmaStartDecompositionBlock"
     /\ result.out.status = "Ok"
     /\ InjectiveOn(result.arg, UsedQubits(op)))
    => LET m == result.arg
           new == result.out.value
           old_dict == op.reordering_dictionary
           new_dict == new.reordering_dictionary
       IN  /\ new.kind = "PragmaStartDecompositionBlock"
           /\ Len(new.qubits) = Len(op.qubits)
           /\ \A i \in DOMAIN op.qubits : new.qubits[i] = m[op.qubits[i]]
           /\ DOMAIN new_dict = {m[k] : k \in DOMAIN old_dict}
           /\ \A k \in DOMAIN old_dict : new_dict[m[k]] = m[old_dict[k]]
           /\ Cardinality(DOMAIN new_dict) = Cardinality(DOMAIN old_dict)
           /\ IsIdentity(m) => new = op

\* qubits [0, 1] with dictionary {0 -> 1}, remapped by the swap of 0 and 1
C15_Witness ==
    /\ Remapped
    /\ op = PragmaStartDecompositionBlock(<<0, 1>>, 0 :> 1)
    /\ result.arg = (0 :> 1) @@ (1 :> 0)
    /\ result.out = Ok(PragmaStartDecompositionBlock(<<1, 0>>, 1 :> 0))

====
